---------------------------- MODULE Spec2Model ----------------------------
(***************************************************************************)
(* Feature derivation pipeline of src/src/features.py: load_dataset,       *)
(* compute_rfm, compute_engagement_features, compute_trends and the tail   *)
(* of main (summarize_features, to_parquet).                               *)
(*                                                                         *)
(* A table (DataFrame) is a sequence of rows; a row is a record whose      *)
(* fields are the columns, so "c in df.columns" is c \in DOMAIN df[1] and  *)
(* df["c"] = ... adds the field c to every row.  A nullable cell is <<>>   *)
(* (NaN / NaT / None) or <<v>>.  Dates are day numbers.  Quantile edges    *)
(* are kept exactly, scaled by the number of quantiles, so that the linear *)
(* interpolation of Series.quantile stays in the integers.  Tables have at *)
(* least one customer.                                                     *)
(***************************************************************************)
EXTENDS Integers, Sequences, FiniteSets, TLC

VARIABLES
    dataset,   \* clients_training_set.parquet as written by data_loader
    df,        \* the DataFrame main holds (<<>> before load_dataset)
    pc,        \* position of main: the next call it makes
    error,     \* the exception that ended main, "none" while it runs
    output,    \* clients_features.parquet (<<>> while it is not written)
    calls      \* the calls of main that have returned, in order

vars == <<dataset, df, pc, error, output, calls>>

----------------------------------------------------------------------------
(* Bounds and input domains                                                *)

MaxRows == 3

NA == <<>>
Some(v) == <<v>>
IsNA(x) == x = NA
Val(x) == x[1]

\* A nullable cell holding one of the values of S.
Nullable(S) == {NA} \cup {Some(v) : v \in S}

\* A column or table built row by row, as a sequence value.
Series(f) == f \o <<>>

OrderCounts == {0, 2}
OrderValues == {50}
OrderDates == {0, 60, 90}
Channels == {"app", "web"}

\* One row of the order aggregates that merge_datasets left-joins onto the
\* customers.  A customer without orders has no aggregate at all; one with
\* orders has a count, and a mean and a last date unless every amount or
\* every date of the orders was unreadable.
NoOrders ==
    [total_orders |-> NA, avg_order_value |-> NA, last_order_date |-> NA]

MergedRows ==
    {NoOrders} \cup
    [total_orders : {Some(v) : v \in OrderCounts},
     avg_order_value : Nullable(OrderValues),
     last_order_date : Nullable(OrderDates)]

\* The rows of the tables that carry a channel column: fewer aggregates,
\* every channel pattern.
ChannelRows ==
    {NoOrders} \cup
    [total_orders : {Some(2)},
     avg_order_value : {Some(50)},
     last_order_date : {Some(0), Some(90)}]

WithId(rows) ==
    Series([i \in 1..Len(rows) |-> [customer_id |-> i] @@ rows[i]])

WithChannel(rows, ch) ==
    Series([i \in 1..Len(rows) |-> [channel |-> ch[i]] @@ rows[i]])

\* The merged tables of n customers, without and with a channel column.
IsTable(t, n) ==
    \/ \E rows \in [1..n -> MergedRows] : t = WithId(rows)
    \/ \E rows \in [1..n -> ChannelRows] :
           \E ch \in [1..n -> Nullable(Channels)] :
               t = WithChannel(WithId(rows), ch)

----------------------------------------------------------------------------
(* Series helpers                                                          *)

Column(t, c) == Series([i \in 1..Len(t) |-> t[i][c]])

fillna(x, v) == IF IsNA(x) THEN v ELSE Val(x)

\* Series.max(): the largest value present, NaN/NaT when there is none.
SeqMax(s) ==
    LET vals == {Val(s[i]) : i \in {j \in 1..Len(s) : ~IsNA(s[j])}}
    IN  IF vals = {} THEN NA
        ELSE Some(CHOOSE v \in vals : \A w \in vals : w <= v)

----------------------------------------------------------------------------
(* Series.rank(method="first"): ranks 1..n, equal values ranked in the     *)
(* order they appear in the column.                                        *)

rank_last(xs) ==
    Series([i \in 1..Len(xs) |->
        1 + Cardinality({j \in 1..Len(xs) : xs[j] < xs[i]})
          + Cardinality({j \in (i + 1)..Len(xs) : xs[j] = xs[i]})])

rank_first(xs) ==
    Series([i \in 1..Len(xs) |->
        1 + Cardinality({j \in 1..Len(xs) : xs[j] < xs[i]})
          + Cardinality({j \in 1..(i - 1) : xs[j] = xs[i]})])

----------------------------------------------------------------------------
(* pd.qcut(x, q, labels=False, duplicates="drop") of a column without      *)
(* missing values.  Edges are scaled by q: edge k is q times the k/q       *)
(* quantile of x by linear interpolation.                                  *)

Q == 5

Sorted(xs) == SortSeq(xs, <)

\* q * (the k/q quantile): position (n-1)*k/q between two order statistics.
quantile_edge(sorted, k) ==
    LET pos == (Len(sorted) - 1) * k
        lo  == pos \div Q
        rem == pos % Q
    IN  Q * sorted[lo + 1]
        + (IF rem = 0 THEN 0 ELSE (sorted[lo + 2] - sorted[lo + 1]) * rem)

quantile_bins(xs) ==
    Series([k \in 1..(Q + 1) |-> quantile_edge(Sorted(xs), k - 1)])

\* algos.unique: the first occurrence of every value, in order.
unique(s) ==
    LET first == {i \in 1..Len(s) : \A j \in 1..(i - 1) : s[j] # s[i]}
        nth(k) == CHOOSE i \in first : Cardinality({j \in first : j < i}) = k - 1
    IN  Series([k \in 1..Cardinality(first) |-> s[nth(k)]])

\* duplicates="drop": repeated edges are dropped (never for 2 edges).
drop_duplicates(bins) ==
    IF Len(unique(bins)) < Len(bins) /\ Len(bins) # 2
    THEN unique(bins) ELSE bins

\* bins.searchsorted(x, side="left") on the scaled edges.
searchsorted_left(bins, x) ==
    Cardinality({i \in 1..Len(bins) : bins[i] < Q * x})

\* ids of _bins_to_cuts with include_lowest=True.
bin_id(bins, x) ==
    IF Q * x = bins[1] THEN 1 ELSE searchsorted_left(bins, x)

\* labels=False: ids - 1, NaN where ids == 0 or ids == len(bins).
bins_to_cuts_off_by_one(bins, x) ==
    LET id == bin_id(bins, x)
    IN  IF id = Len(bins) \/ id = 0 THEN NA ELSE Some(id)

bins_to_cuts(bins, x) ==
    LET id == bin_id(bins, x)
    IN  IF id = Len(bins) \/ id = 0 THEN NA ELSE Some(id - 1)

qcut(xs) ==
    LET bins == drop_duplicates(quantile_bins(xs))
    IN  Series([i \in 1..Len(xs) |-> bins_to_cuts(bins, xs[i])])

----------------------------------------------------------------------------
(* compute_rfm                                                             *)

Sentinel == 9999

\* (reference_date - last_order_date).dt.days.fillna(9999); the difference
\* is NaT when either date is.
recency_days_of(reference_date, last_order_date) ==
    IF IsNA(reference_date) \/ IsNA(last_order_date)
    THEN Sentinel
    ELSE Val(reference_date) - Val(last_order_date)

\* Lines 16-24: the raw metrics and the three bucket columns.
rfm_metrics(t) ==
    LET reference_date == SeqMax(Column(t, "last_order_date"))
        recency   == Series([i \in 1..Len(t) |->
                         recency_days_of(reference_date, t[i].last_order_date)])
        frequency == Series([i \in 1..Len(t) |-> fillna(t[i].total_orders, 0)])
        monetary  == Series([i \in 1..Len(t) |-> fillna(t[i].avg_order_value, 0)])
        rscore    == qcut(recency)
        fscore    == qcut(rank_first(frequency))
        mscore    == qcut(rank_first(monetary))
    IN  Series([i \in 1..Len(t) |->
            [recency_days    |-> recency[i],
             frequency       |-> frequency[i],
             monetary_value  |-> monetary[i],
             recency_score   |-> rscore[i],
             frequency_score |-> fscore[i],
             monetary_score  |-> mscore[i]] @@ t[i]])

\* Series.astype(int) raises on a column that holds NaN.
astype_int_raises(t) ==
    \E i \in 1..Len(t) :
        \/ IsNA(t[i].recency_score)
        \/ IsNA(t[i].frequency_score)
        \/ IsNA(t[i].monetary_score)

\* Lines 27-31.
rfm_score_of(r) ==
    Val(r.recency_score) + Val(r.frequency_score) + Val(r.monetary_score)

with_rfm_score_dropna(t) ==
    LET kept == SelectSeq(t, LAMBDA r : ~IsNA(r.last_order_date))
    IN  Series([i \in 1..Len(kept) |->
                   [rfm_score |-> rfm_score_of(kept[i])] @@ kept[i]])

with_rfm_score(t) ==
    Series([i \in 1..Len(t) |-> [rfm_score |-> rfm_score_of(t[i])] @@ t[i]])

----------------------------------------------------------------------------
(* compute_engagement_features                                             *)

\* df.groupby("channel")["customer_id"].count(): rows per channel, the
\* rows without a channel left out.
channel_orders(t, c) ==
    Cardinality({i \in 1..Len(t) : t[i].channel = Some(c)})

channel_counts(t) ==
    {c \in {Val(t[i].channel) : i \in {j \in 1..Len(t) : ~IsNA(t[j].channel)}} :
        channel_orders(t, c) > 0}

\* sort_values("channel_orders", ascending=False).head(1): a channel with
\* the highest count.  The sort is kind="quicksort", which is not stable:
\* which of several channels with the highest count comes first is left to
\* the build, so every one of them is a possible outcome.
top_channels_least(t) ==
    {c \in channel_counts(t) :
        \A d \in channel_counts(t) : channel_orders(t, c) <= channel_orders(t, d)}

top_channels(t) ==
    {c \in channel_counts(t) :
        \A d \in channel_counts(t) : channel_orders(t, c) >= channel_orders(t, d)}

is_active_strict(recency_days) == IF recency_days < 30 THEN 1 ELSE 0

is_active_of(recency_days) == IF recency_days <= 30 THEN 1 ELSE 0

is_inactive_of(recency_days) == IF recency_days > 90 THEN 1 ELSE 0

engagement_score_inverted4(r) ==
    (4 - Val(r.recency_score)) + Val(r.frequency_score) + Val(r.monetary_score)

engagement_score_of(r) ==
    (5 - Val(r.recency_score)) + Val(r.frequency_score) + Val(r.monetary_score)

\* Lines 42-55 with the chosen top_channel.
engagement_features(t, top_channel) ==
    Series([i \in 1..Len(t) |->
        [top_channel      |-> top_channel,
         is_active        |-> is_active_of(t[i].recency_days),
         is_inactive      |-> is_inactive_of(t[i].recency_days),
         engagement_score |-> engagement_score_of(t[i])] @@ t[i]])

----------------------------------------------------------------------------
(* compute_trends                                                          *)

\* np.log1p(total_orders) / total_orders.max(): <<x, m>> stands for
\* log(1 + x) / m; NaN when x or m is, and when both are 0 (0.0 / 0).
order_growth_est_of(total_orders, max_orders) ==
    IF IsNA(total_orders) \/ IsNA(max_orders) THEN NA
    ELSE IF Val(total_orders) = 0 /\ Val(max_orders) = 0 THEN NA
    ELSE Some(<<Val(total_orders), Val(max_orders)>>)

\* log(1 + x) / m = 0 exactly when x = 0 (and m > 0).
IsZeroGrowth(g) == ~IsNA(g) /\ Val(g)[1] = 0

RECURSIVE SeqSum(_)
SeqSum(s) ==
    IF Len(s) = 0 THEN 0 ELSE fillna(Head(s), 0) + SeqSum(Tail(s))

Count(s) == Cardinality({i \in 1..Len(s) : ~IsNA(s[i])})

\* avg_order_value / avg_order_value.mean(): <<a, s, c>> stands for
\* a / (s / c); NaN when a is, when the column is all NaN, and for 0 / 0.
spending_index_of(avg_order_value, col) ==
    IF IsNA(avg_order_value) \/ Count(col) = 0 \/ SeqSum(col) = 0 THEN NA
    ELSE Some(<<Val(avg_order_value), SeqSum(col), Count(col)>>)

SegmentBins == <<-1, 4, 7, 10, 12>>
SegmentLabels == <<"churned", "neutral", "loyal", "vip">>

\* pd.cut(x, bins, labels) with right=True: bin k is (bins[k], bins[k+1]],
\* NaN outside (bins[1], bins[last]].
cut_left_closed(x) ==
    LET id == Cardinality({i \in 1..Len(SegmentBins) : SegmentBins[i] <= x})
    IN  IF id = 0 \/ id = Len(SegmentBins) THEN NA ELSE Some(SegmentLabels[id])

cut(x) ==
    LET id == Cardinality({i \in 1..Len(SegmentBins) : SegmentBins[i] < x})
    IN  IF id = 0 \/ id = Len(SegmentBins) THEN NA ELSE Some(SegmentLabels[id])

trends(t) ==
    LET has == "total_orders" \in DOMAIN t[1] /\ "avg_order_value" \in DOMAIN t[1]
        mx  == IF has THEN SeqMax(Column(t, "total_orders")) ELSE NA
    IN  Series([i \in 1..Len(t) |->
            [order_growth_est |->
                 IF has THEN order_growth_est_of(t[i].total_orders, mx) ELSE NA,
             spending_index |->
                 IF has THEN spending_index_of(t[i].avg_order_value,
                                               Column(t, "avg_order_value"))
                        ELSE NA,
             loyalty_segment |-> cut(t[i].rfm_score)] @@ t[i]])

----------------------------------------------------------------------------
(* main: one action per call it makes                                      *)

Init ==
    /\ \E n \in 1..MaxRows : IsTable(dataset, n)
    /\ df = <<>>
    /\ pc = "load_dataset"
    /\ error = "none"
    /\ output = <<>>
    /\ calls = <<>>

load_dataset ==
    /\ pc = "load_dataset"
    /\ df' = dataset
    /\ pc' = "compute_rfm"
    /\ calls' = Append(calls, "load_dataset")
    /\ UNCHANGED <<dataset, error, output>>

\* The columns are assigned in place, so the table keeps them when the
\* cast of line 28-30 raises.
compute_rfm ==
    /\ pc = "compute_rfm"
    /\ LET scored == rfm_metrics(df)
       IN  IF astype_int_raises(scored)
           THEN /\ df' = scored
                /\ error' = "IntCastingNaNError"
                /\ pc' = "aborted"
                /\ calls' = calls
           ELSE /\ df' = with_rfm_score(scored)
                /\ error' = error
                /\ pc' = "compute_engagement_features"
                /\ calls' = Append(calls, "compute_rfm")
    /\ UNCHANGED <<dataset, output>>

\* .values[0] of an empty selection raises IndexError: a channel column
\* without a single channel.
compute_engagement_features ==
    /\ pc = "compute_engagement_features"
    /\ IF "channel" \in DOMAIN df[1]
       THEN IF channel_counts(df) = {}
            THEN /\ df' = df
                 /\ error' = "IndexError"
                 /\ pc' = "aborted"
                 /\ calls' = calls
            ELSE /\ \E top \in top_channels(df) :
                        df' = engagement_features(df, top)
                 /\ error' = error
                 /\ pc' = "compute_trends"
                 /\ calls' = Append(calls, "compute_engagement_features")
       ELSE /\ df' = engagement_features(df, "unknown")
            /\ error' = error
            /\ pc' = "compute_trends"
            /\ calls' = Append(calls, "compute_engagement_features")
    /\ UNCHANGED <<dataset, output>>

compute_trends ==
    /\ pc = "compute_trends"
    /\ df' = trends(df)
    /\ pc' = "summarize_features"
    /\ calls' = Append(calls, "compute_trends")
    /\ UNCHANGED <<dataset, error, output>>

\* main reaches line 96 only when the three calls have returned.
CanSaveAlways == pc \in {"summarize_features", "aborted"} /\ output = <<>>

CanSave == pc = "summarize_features"

\* Lines 96-100: summarize_features prints, to_parquet writes the table.
save_features ==
    /\ CanSave
    /\ output' = df
    /\ pc' = "done"
    /\ UNCHANGED <<dataset, df, error, calls>>

Next ==
    \/ load_dataset
    \/ compute_rfm
    \/ compute_engagement_features
    \/ compute_trends
    \/ save_features

Spec == Init /\ [][Next]_vars

----------------------------------------------------------------------------
(* compute_trends called on its own, on any table that has an rfm_score    *)
(* column.                                                                 *)

MaxCallRows == 2
ScoreMargin == 1

\* The scores of the declared domain and ScoreMargin more on either side.
ScoreInputs ==
    (SegmentBins[1] + 1 - ScoreMargin)..(SegmentBins[Len(SegmentBins)] + ScoreMargin)

ScoredRows ==
    [total_orders : Nullable(OrderCounts),
     avg_order_value : {Some(v) : v \in OrderValues},
     rfm_score : ScoreInputs]

BareScoredRows == [rfm_score : ScoreInputs]

InitTrends ==
    /\ \E n \in 1..MaxCallRows :
          \/ \E rows \in [1..n -> ScoredRows] : df = WithId(rows)
          \/ \E rows \in [1..n -> BareScoredRows] : df = WithId(rows)
    /\ dataset = <<>>
    /\ pc = "compute_trends"
    /\ error = "none"
    /\ output = <<>>
    /\ calls = <<>>

SpecTrends == InitTrends /\ [][compute_trends]_vars

----------------------------------------------------------------------------
(* Properties                                                              *)

Rows(t) == 1..Len(t)

HasColumn(t, c) == Len(t) > 0 /\ c \in DOMAIN t[1]

Returned(f) == \E k \in 1..Len(calls) : calls[k] = f

Scores == {Some(k) : k \in 0..(Q - 1)}

SameCustomers(t) ==
    /\ Len(t) = Len(dataset)
    /\ \A i \in Rows(dataset) :
          Cardinality({j \in Rows(t) : t[j].customer_id = dataset[i].customer_id}) = 1

\* C1: once the table is loaded, at every stage and in the written file,
\* the table has as many rows as the merged input and every customer_id of
\* the input is the customer_id of exactly one row; this includes the
\* customers with missing total_orders, avg_order_value or last_order_date.
C1_Completeness ==
    /\ pc # "load_dataset" => SameCustomers(df)
    /\ output # <<>> => SameCustomers(output)

C1_Witness ==
    /\ pc = "done"
    /\ Len(output) >= 2
    /\ \E i \in Rows(dataset) : dataset[i] = [customer_id |-> i] @@ NoOrders
    /\ \E i \in Rows(dataset) :
          /\ ~IsNA(dataset[i].total_orders)
          /\ IsNA(dataset[i].avg_order_value)
          /\ IsNA(dataset[i].last_order_date)

\* C2: in every row that compute_rfm returns, recency_score, frequency_score
\* and monetary_score are integers in [0,4] and rfm_score is their sum, an
\* integer in [0,12].
C2_BucketDomain ==
    Returned("compute_rfm") =>
        \A i \in Rows(df) :
            /\ df[i].recency_score \in Scores
            /\ df[i].frequency_score \in Scores
            /\ df[i].monetary_score \in Scores
            /\ df[i].rfm_score = Val(df[i].recency_score)
                                 + Val(df[i].frequency_score)
                                 + Val(df[i].monetary_score)
            /\ df[i].rfm_score \in 0..12

C2_Witness ==
    /\ Returned("compute_rfm")
    /\ \E i \in Rows(df) : df[i].rfm_score = 12
    /\ \E i \in Rows(df) : df[i].rfm_score = 0
    /\ \E i \in Rows(df) : df[i].recency_score = Some(2)

SegmentOf(score) ==
    IF score <= 4 THEN "churned"
    ELSE IF score <= 7 THEN "neutral"
    ELSE IF score <= 10 THEN "loyal"
    ELSE "vip"

\* C3: compute_trends gives every rfm_score in [0,12] exactly one segment:
\* churned for 0..4, neutral for 5..7, loyal for 8..10, vip for 11..12.
C3_SegmentTotal ==
    Returned("compute_trends") =>
        \A i \in Rows(df) :
            df[i].rfm_score \in 0..12 =>
                df[i].loyalty_segment = Some(SegmentOf(df[i].rfm_score))

C3_Witness ==
    /\ Returned("compute_trends")
    /\ \E i \in Rows(df) :
          df[i].rfm_score = 0 /\ df[i].loyalty_segment = Some("churned")
    /\ \E i \in Rows(df) :
          df[i].rfm_score = 12 /\ df[i].loyalty_segment = Some("vip")

\* C4: a row whose rfm_score lies outside [0,12] makes compute_trends fail
\* with OutOfRangeScoreError: the call never returns such a row, neither
\* with a segment nor with a null loyalty_segment.
C4_OutOfRangeRejected ==
    (\E i \in Rows(df) : HasColumn(df, "rfm_score") /\ df[i].rfm_score \notin 0..12) =>
        \/ pc = "compute_trends"
        \/ error = "OutOfRangeScoreError"

\* C5 as claimed: engagement_score = (4 - recency_score) + frequency_score
\* + monetary_score, in [0,12].
C5_Inverted4 ==
    Returned("compute_engagement_features") =>
        \A i \in Rows(df) :
            /\ df[i].engagement_score = (4 - Val(df[i].recency_score))
                                        + Val(df[i].frequency_score)
                                        + Val(df[i].monetary_score)
            /\ df[i].engagement_score \in 0..12

\* C5 as amended: engagement_score = (5 - recency_score) + frequency_score
\* + monetary_score, so with bucket scores in [0,4] it lies in [1,13].
C5_Inverted5 ==
    Returned("compute_engagement_features") =>
        \A i \in Rows(df) :
            /\ df[i].engagement_score = (5 - Val(df[i].recency_score))
                                        + Val(df[i].frequency_score)
                                        + Val(df[i].monetary_score)
            /\ df[i].engagement_score \in 1..13

C5_Witness ==
    /\ Returned("compute_engagement_features")
    /\ \E i \in Rows(df) : df[i].engagement_score = 13
    /\ \E i \in Rows(df) : df[i].engagement_score = 1

IsReferenceDate(d) ==
    /\ \E j \in Rows(dataset) : dataset[j].last_order_date = Some(d)
    /\ \A j \in Rows(dataset) :
          ~IsNA(dataset[j].last_order_date) => Val(dataset[j].last_order_date) <= d

\* C6: recency_days is the number of days (>= 0) from the customer's
\* last_order_date to the latest last_order_date of the table, or 9999 when
\* the customer has none; is_active is 1 exactly when recency_days <= 30,
\* is_inactive exactly when recency_days > 90; a customer without
\* last_order_date is inactive and not active; nobody is both.
C6_Recency ==
    Returned("compute_engagement_features") =>
        \A i \in Rows(df) :
            /\ IF IsNA(dataset[i].last_order_date)
               THEN /\ df[i].recency_days = 9999
                    /\ df[i].is_active = 0
                    /\ df[i].is_inactive = 1
               ELSE /\ df[i].recency_days >= 0
                    /\ IsReferenceDate(Val(dataset[i].last_order_date)
                                       + df[i].recency_days)
            /\ df[i].is_active = 1 <=> df[i].recency_days <= 30
            /\ df[i].is_inactive = 1 <=> df[i].recency_days > 90
            /\ df[i].is_active \in {0, 1} /\ df[i].is_inactive \in {0, 1}
            /\ ~(df[i].is_active = 1 /\ df[i].is_inactive = 1)

C6_Witness ==
    /\ Returned("compute_engagement_features")
    /\ \E i \in Rows(df) : df[i].recency_days = 30 /\ df[i].is_active = 1
    /\ \E i \in Rows(df) : df[i].recency_days = 0 /\ df[i].is_active = 1
    /\ \E i \in Rows(df) :
          /\ IsNA(dataset[i].last_order_date)
          /\ df[i].recency_days = 9999 /\ df[i].is_inactive = 1

\* C7: the feature table is written only after compute_rfm,
\* compute_engagement_features and compute_trends have returned, in that
\* order, and never in a run in which one of them raised: such a run ends
\* aborted with the error the stage raised.
C7_AbortOnFailure ==
    /\ output # <<>> =>
          /\ error = "none"
          /\ calls = <<"load_dataset", "compute_rfm",
                       "compute_engagement_features", "compute_trends">>
    /\ error # "none" =>
          /\ pc = "aborted"
          /\ output = <<>>
          /\ \/ error = "IntCastingNaNError" /\ calls = <<"load_dataset">>
             \/ error = "IndexError" /\ calls = <<"load_dataset", "compute_rfm">>

C7_Witness ==
    /\ pc = "aborted"
    /\ error = "IndexError"
    /\ Returned("compute_rfm")
    /\ output = <<>>

TooFewBuckets(xs) == Len(unique(quantile_bins(xs))) < Q + 1

LowCardinality(t) ==
    \/ TooFewBuckets(Column(t, "recency_days"))
    \/ TooFewBuckets(rank_first(Column(t, "frequency")))
    \/ TooFewBuckets(rank_first(Column(t, "monetary_value")))

\* C8: when a scored metric has too few distinct values for 5 quantile
\* buckets, compute_rfm does not fail and every row has an integer score.
C8_CollapseWithoutFailing ==
    (HasColumn(df, "recency_score") /\ LowCardinality(df)) =>
        /\ error = "none"
        /\ \A i \in Rows(df) :
              /\ ~IsNA(df[i].recency_score)
              /\ ~IsNA(df[i].frequency_score)
              /\ ~IsNA(df[i].monetary_score)

MostFrequent(t) ==
    {c \in Channels :
        /\ \E i \in Rows(t) : t[i].channel = Some(c)
        /\ \A d \in Channels :
              Cardinality({i \in Rows(t) : t[i].channel = Some(d)})
                  <= Cardinality({i \in Rows(t) : t[i].channel = Some(c)})}

FirstSeen(t, cs) ==
    LET first == CHOOSE i \in Rows(t) :
                     /\ ~IsNA(t[i].channel) /\ Val(t[i].channel) \in cs
                     /\ \A j \in 1..(i - 1) :
                           IsNA(t[j].channel) \/ Val(t[j].channel) \notin cs
    IN  Val(t[first].channel)

ByName == <<"app", "web">>

FirstByName(cs) ==
    ByName[CHOOSE k \in 1..Len(ByName) :
               ByName[k] \in cs /\ \A j \in 1..(k - 1) : ByName[j] \notin cs]

KeepsGroupOrder ==
    HasColumn(df, "channel") => df[1].top_channel = FirstByName(MostFrequent(df))

C10_ZeroOrders ==
    /\ (Len(dataset) = 1 /\ dataset[1].total_orders = Some(0)) =>
          /\ error = "none"
          /\ Returned("compute_trends") =>
                /\ df[1].frequency = 0
                /\ df[1].frequency_score = Some(0)
    /\ Returned("compute_trends") =>
          \A i \in Rows(df) :
              (HasColumn(df, "total_orders") /\ df[i].total_orders = Some(0)) =>
                  IsZeroGrowth(df[i].order_growth_est)

Distance(a, b) == IF a >= b THEN a - b ELSE b - a

\* C11 as claimed: two customers with equal frequency (equal
\* monetary_value) get frequency_score (monetary_score) values that are
\* equal or differ by at most 1.
C11_EqualOrAdjacent ==
    Returned("compute_rfm") =>
        \A i, j \in Rows(df) :
            /\ df[i].frequency = df[j].frequency =>
                  Distance(Val(df[i].frequency_score),
                           Val(df[j].frequency_score)) <= 1
            /\ df[i].monetary_value = df[j].monetary_value =>
                  Distance(Val(df[i].monetary_score),
                           Val(df[j].monetary_score)) <= 1

\* C11 as amended: frequency and monetary_value are ranked with the
\* first-occurrence tie-break before the quantile cut, so of two customers
\* with equal frequency (equal monetary_value) the one earlier in the table
\* never gets the higher frequency_score (monetary_score), and a customer
\* with a smaller value never gets a higher score than one with a larger
\* value; the scores of equal values may differ by up to 4.
C11_OrderedByFirstOccurrence ==
    Returned("compute_rfm") =>
        \A i, j \in Rows(df) :
            /\ (df[i].frequency < df[j].frequency
                \/ (df[i].frequency = df[j].frequency /\ i < j)) =>
                  Val(df[i].frequency_score) <= Val(df[j].frequency_score)
            /\ (df[i].monetary_value < df[j].monetary_value
                \/ (df[i].monetary_value = df[j].monetary_value /\ i < j)) =>
                  Val(df[i].monetary_score) <= Val(df[j].monetary_score)

C11_Witness ==
    /\ Returned("compute_rfm")
    /\ \E i, j \in Rows(df) :
          /\ i < j
          /\ df[i].frequency = df[j].frequency
          /\ Val(df[i].frequency_score) + 1 < Val(df[j].frequency_score)
    /\ \E i, j \in Rows(df) :
          /\ df[i].frequency < df[j].frequency
          /\ Val(df[i].frequency_score) < Val(df[j].frequency_score)

============================================================================
